---- MODULE Spec2Model ----
(***************************************************************************)
(* Model of findCheapestPrice (realworld-dsa/cheapest_flights.cpp): the    *)
(* cheapest route from src to dst with at most k intermediate stops, found *)
(* by a cost-ordered search over (cost, city, stops) entries.              *)
(***************************************************************************)
EXTENDS Integers, Sequences, FiniteSets, Bags, TLC

\* Bounds of the enumerated inputs.
MaxN == 2
MaxEdges == 2
MaxCost == 1
MaxK == 2

\* the costs of the short flight lists
UnitCosts == {0, 1}

\* std::numeric_limits<int>::max() and ::min() of a 32-bit int.
INT_MAX == 2147483647
INT_MIN == (-INT_MAX) - 1

VARIABLES
    n,        \* parameter n: number of cities
    flights,  \* parameter flights: sequence of <<from, to, cost>>
    src,      \* parameter src
    dst,      \* parameter dst
    k,        \* parameter k
    adj,      \* adjacency list: city -> sequence of Edge
    pq,       \* the priority queue, a bag of <<cost, city, stops>>
    dist,     \* dist[city][stops]
    pc,       \* position of the call: start, init, loop, done, crashed
    result,   \* << >> until the call returns, then <<the returned value>>
    ovf,      \* a signed addition has overflowed (undefined behaviour)
    oob,      \* a vector has been indexed outside its size (undefined behaviour)
    popped,   \* history: the entries popped so far
    relaxed   \* history: a bag of <<city, i, stops>>, one copy for each time
              \* flight i of adj[city], taken from an entry with that many
              \* stops, updated dist and pushed an entry

vars == <<n, flights, src, dst, k, adj, pq, dist, pc, result, ovf, oob, popped, relaxed>>

\* the value the call has returned
returned == result[1]

----------------------------------------------------------------------------
\* int arithmetic

\* a + b does not fit an int
AddOverflows(a, b) ==
    \/ b > 0 /\ a > INT_MAX - b
    \/ b < 0 /\ a < INT_MIN - b

\* a + b reduced modulo 2^32 into [INT_MIN, INT_MAX]
WrapAdd(a, b) ==
    IF b > 0 /\ a > INT_MAX - b
    THEN (a - INT_MAX - 1) + (b - INT_MAX - 1)
    ELSE IF b < 0 /\ a < INT_MIN - b
         THEN (a + INT_MAX + 1) + (b + INT_MAX + 1)
         ELSE a + b

\* What a build may do on signed overflow: wrap around or trap.
OverflowModes == {"wrap", "trap"}

----------------------------------------------------------------------------
\* struct Edge and the adjacency list

Edge(to, cost) == [to |-> to, cost |-> cost]

RECURSIVE BuildAdj(_, _, _)
BuildAdj(a, fl, i) ==
    IF i > Len(fl) THEN a
    ELSE LET flight == fl[i]
         IN  BuildAdj([a EXCEPT ![flight[1]] = Append(@, Edge(flight[2], flight[3]))],
                      fl, i + 1)

----------------------------------------------------------------------------
\* the priority queue

FlightTuple(cost, city, stops) == <<cost, city, stops>>

\* the comparison reads the stops, not the cost, of the tuples
CompareFlightByStops(a, b) == a[3] > b[3]

\* the comparison turned round: the dearest entry comes first
CompareFlightInverted(a, b) == a[1] < b[1]

\* CompareFlight()(a, b): a is ordered after b
CompareFlight(a, b) == a[1] > b[1]

\* a container that keeps no order: any entry may come out
TopUnordered(q) == BagToSet(q)

\* pq.top(): an entry that the comparator orders after no other entry
Top(q) == {e \in BagToSet(q) : \A f \in BagToSet(q) : ~CompareFlight(e, f)}

\* top() without pop(): the entry stays in the queue
PopKeepsEntry(q, e) == q

\* pq.pop() after pq.top() gave e
Pop(q, e) == q (-) SetToBag({e})

Push(q, e) == q (+) SetToBag({e})

\* the source counted as a stop already made
SeedCountsStop(s) == FlightTuple(0, s, 1)

\* pq.push({0, src, 0})
Seed(s) == FlightTuple(0, s, 0)

\* the destination counts only after a flight has been taken
AtDestinationAfterFlight(e, t) == e[2] = t /\ e[3] > 0

\* current_city == dst
AtDestination(e, t) == e[2] = t

\* the budget compared with >= : one stop too few
ExceedsStopsOffByOne(e, kk) == e[3] >= kk

\* current_stops > k
ExceedsStops(e, kk) == e[3] > kk

----------------------------------------------------------------------------
\* the table dist[city][stops]

Nodes(m) == 0 .. (m - 1)

\* vector<vector<int>> dist(n, vector<int>(cols, max)); dist[src][0] = 0,
\* for cols >= 1
InitDist(m, cols, s) ==
    [[u \in Nodes(m) |-> [c \in 0 .. (cols - 1) |-> INT_MAX]] EXCEPT ![s][0] = 0]

----------------------------------------------------------------------------
\* the relaxation loop over the flights of one city; st.hits lists the
\* positions i whose flight updated dist and pushed an entry

\* the comparison lets a tie through: an equal cost is pushed again
ImprovesOrTies(new_cost, best) == new_cost <= best

\* new_cost < dist[next_city][current_stops + 1]
Improves(new_cost, best) == new_cost < best

InRange(d, city, stops) ==
    /\ city \in DOMAIN d
    /\ stops \in DOMAIN d[city]

RECURSIVE RelaxEdges(_, _, _, _, _, _)
RelaxEdges(edges, i, current_cost, current_stops, st, mode) ==
    IF i > Len(edges) \/ st.status # "ok" THEN st
    ELSE LET next_city == edges[i].to
             flight_cost == edges[i].cost
             over == AddOverflows(current_cost, flight_cost)
             new_cost == WrapAdd(current_cost, flight_cost)
             st1 == [st EXCEPT !.ovf = @ \/ over]
         IN  IF over /\ mode = "trap"
             THEN [st1 EXCEPT !.status = "trap"]
             ELSE IF ~InRange(st.dist, next_city, current_stops + 1)
             THEN [st1 EXCEPT !.status = "oob"]
             ELSE IF Improves(new_cost, st.dist[next_city][current_stops + 1])
             THEN RelaxEdges(edges, i + 1, current_cost, current_stops,
                     [st1 EXCEPT !.dist[next_city][current_stops + 1] = new_cost,
                                 !.pq = Push(@, FlightTuple(new_cost, next_city, current_stops + 1)),
                                 !.hits = Append(@, i)],
                     mode)
             ELSE RelaxEdges(edges, i + 1, current_cost, current_stops, st1, mode)

\* the flights at the positions `hits' of adj[city], taken after `stops' stops
RelaxedBy(city, stops, hits) ==
    SetToBag({<<city, hits[j], stops>> : j \in DOMAIN hits})

----------------------------------------------------------------------------
\* inputs

SeqsUpTo(S, len) == UNION {[1 .. m -> S] : m \in 0 .. len}

FlightsOver(m, costs) == Nodes(m) \X Nodes(m) \X costs

ExampleFlights ==
    << <<0, 1, 500>>, <<0, 2, 600>>, <<1, 2, 150>>, <<1, 3, 200>>,
       <<2, 3, 180>>, <<2, 4, 250>>, <<3, 4, 300>>, <<4, 0, 700>> >>

InitRest ==
    /\ adj = << >>
    /\ pq = EmptyBag
    /\ dist = << >>
    /\ pc = "start"
    /\ result = << >>
    /\ ovf = FALSE
    /\ oob = FALSE
    /\ popped = {}
    /\ relaxed = EmptyBag

\* Four cities: flights 0->1, 0->3, 1->2, 2->1, 1->3, 2->3, each one absent
\* or present with a cost; routes of one, two, three and more flights lead
\* from 0 to 3, and 1 and 2 lie on a cycle.
MeshRoutes == << <<0, 1>>, <<0, 3>>, <<1, 2>>, <<2, 1>>, <<1, 3>>, <<2, 3>> >>

\* the flights of the routes in `present', with the costs c
RECURSIVE MeshFlights(_, _, _)
MeshFlights(present, c, i) ==
    IF i > Len(MeshRoutes) THEN << >>
    ELSE (IF i \in present
          THEN << <<MeshRoutes[i][1], MeshRoutes[i][2], c[i]>> >>
          ELSE << >>)
         \o MeshFlights(present, c, i + 1)

\* any short flight list over up to MaxN cities; up to the names of the
\* cities, the source is city 0 and the destination is city n-1 or, on one
\* and two cities, the source (a call that ends at the first pop)
InitSmall(costs, stops) ==
    /\ n \in 1 .. MaxN
    /\ flights \in SeqsUpTo(FlightsOver(n, costs), MaxEdges)
    /\ src = 0
    /\ dst \in {n - 1} \cup {d \in {0} : n <= 2}
    /\ k \in stops

\* the call of main(), lines 99-125, with max_stops 0, 1, 2
InitExample ==
    /\ n = 5
    /\ flights = ExampleFlights
    /\ src = 0
    /\ dst = 4
    /\ k \in 0 .. 2

InitMesh ==
    /\ n = 4
    /\ \E present \in SUBSET (1 .. Len(MeshRoutes)),
          c \in [1 .. Len(MeshRoutes) -> 0 .. MaxCost] :
          flights = MeshFlights(present, c, 1)
    /\ src = 0
    /\ dst = 3
    /\ k \in 0 .. MaxK

\* valid inputs: endpoints in [0, n), costs >= 0, k >= 0
Init ==
    /\ \/ InitSmall(UnitCosts, 0 .. MaxK)
       \/ InitExample
       \/ InitMesh
    /\ InitRest

\* stop budgets over the whole int range: negative, small, and the largest
StopValues == {-3, -2, -1} \cup (0 .. MaxK) \cup {INT_MAX - 1, INT_MAX}

InitStops ==
    /\ InitSmall(UnitCosts, StopValues)
    /\ InitRest

\* non-negative costs over the whole int range
CostValues == {0, 1, INT_MAX - 1, INT_MAX}

InitCosts ==
    /\ InitSmall(CostValues, 0 .. MaxK)
    /\ InitRest

\* costs of either sign: the function takes any int as a cost
SignedCosts == (-MaxCost) .. MaxCost

InitNegative ==
    /\ \/ InitSmall(SignedCosts, 0 .. MaxK)
       \/ /\ n = 4
          /\ \E present \in SUBSET (1 .. Len(MeshRoutes)),
                c \in [1 .. Len(MeshRoutes) -> SignedCosts] :
                flights = MeshFlights(present, c, 1)
          /\ src = 0
          /\ dst = 3
          /\ k \in 0 .. MaxK
    /\ InitRest

----------------------------------------------------------------------------
\* the steps of findCheapestPrice

\* lines 37-40
BuildGraph ==
    /\ pc = "start"
    /\ adj' = BuildAdj([u \in Nodes(n) |-> << >>], flights, 1)
    /\ pc' = "init"
    /\ UNCHANGED <<n, flights, src, dst, k, pq, dist, result, ovf, oob, popped, relaxed>>

\* lines 45-51
InitSearch ==
    /\ pc = "init"
    /\ pq' = Push(pq, Seed(src))
    /\ LET over == AddOverflows(k, 2)
           cols == WrapAdd(k, 2)
       IN  /\ ovf' = (ovf \/ over)
           /\ IF over \/ cols < 0
              THEN \* k + 2 overflows (trap, or a negative count), or is negative:
                   \* the count converts to a size beyond max_size() and the
                   \* vector constructor throws std::length_error
                   /\ pc' = "crashed"
                   /\ UNCHANGED <<dist, oob>>
              ELSE IF cols = 0
              THEN \* dist[src][0] = 0 writes outside an empty row
                   /\ oob' = TRUE
                   /\ dist' = [u \in Nodes(n) |-> << >>]
                   /\ pc' \in {"crashed", "loop"}
              ELSE /\ dist' = InitDist(n, cols, src)
                   /\ pc' = "loop"
                   /\ UNCHANGED oob
    /\ UNCHANGED <<n, flights, src, dst, k, adj, result, popped, relaxed>>

\* lines 54-61: the popped entry is at the destination
PopReturn ==
    /\ pc = "loop"
    /\ \E e \in Top(pq) :
        /\ AtDestination(e, dst)
        /\ pq' = Pop(pq, e)
        /\ popped' = popped \cup {e}
        /\ result' = <<e[1]>>
        /\ pc' = "done"
    /\ UNCHANGED <<n, flights, src, dst, k, adj, dist, ovf, oob, relaxed>>

\* lines 54-66: the popped entry has used more than k stops
PopPrune ==
    /\ pc = "loop"
    /\ \E e \in Top(pq) :
        /\ ~AtDestination(e, dst)
        /\ ExceedsStops(e, k)
        /\ pq' = Pop(pq, e)
        /\ popped' = popped \cup {e}
    /\ UNCHANGED <<n, flights, src, dst, k, adj, dist, pc, result, ovf, oob, relaxed>>

\* lines 54-79: the popped entry is expanded
PopExpand ==
    /\ pc = "loop"
    /\ \E e \in Top(pq), mode \in OverflowModes :
        /\ ~AtDestination(e, dst)
        /\ ~ExceedsStops(e, k)
        /\ LET st == RelaxEdges(adj[e[2]], 1, e[1], e[3],
                        [dist |-> dist, pq |-> Pop(pq, e), status |-> "ok", ovf |-> ovf,
                         hits |-> << >>],
                        mode)
           IN  /\ dist' = st.dist
               /\ pq' = st.pq
               /\ popped' = popped \cup {e}
               /\ relaxed' = relaxed (+) RelaxedBy(e[2], e[3], st.hits)
               /\ ovf' = st.ovf
               /\ oob' = (oob \/ st.status = "oob")
               /\ pc' = IF st.status = "ok" THEN "loop" ELSE "crashed"
    /\ UNCHANGED <<n, flights, src, dst, k, adj, result>>

\* lines 54, 83: the queue is empty
Exhausted ==
    /\ pc = "loop"
    /\ pq = EmptyBag
    /\ result' = <<-1>>
    /\ pc' = "done"
    /\ UNCHANGED <<n, flights, src, dst, k, adj, pq, dist, ovf, oob, popped, relaxed>>

Next ==
    \/ BuildGraph
    \/ InitSearch
    \/ PopReturn
    \/ PopPrune
    \/ PopExpand
    \/ Exhausted

Spec == Init /\ [][Next]_vars

\* the call runs to its end: a sequential function always takes its next step
FairSpec == Spec /\ WF_vars(Next)

SpecStops == InitStops /\ [][Next]_vars

SpecCosts == InitCosts /\ [][Next]_vars

SpecNegative == InitNegative /\ [][Next]_vars

----------------------------------------------------------------------------
\* the whole call as a function, ties broken by one fixed choice

RECURSIVE Search(_, _, _, _, _)
Search(q, d, a, t, kk) ==
    IF q = EmptyBag THEN -1
    ELSE LET e == CHOOSE x \in Top(q) : TRUE
         IN  IF AtDestination(e, t) THEN e[1]
             ELSE IF ExceedsStops(e, kk) THEN Search(Pop(q, e), d, a, t, kk)
             ELSE LET st == RelaxEdges(a[e[2]], 1, e[1], e[3],
                               [dist |-> d, pq |-> Pop(q, e), status |-> "ok", ovf |-> FALSE,
                                hits |-> << >>],
                               "wrap")
                  IN  Search(st.pq, st.dist, a, t, kk)

\* for kk >= 0 and costs that do not overflow
findCheapestPrice(m, fl, s, t, kk) ==
    Search(Push(EmptyBag, Seed(s)), InitDist(m, kk + 2, s),
           BuildAdj([u \in Nodes(m) |-> << >>], fl, 1), t, kk)

----------------------------------------------------------------------------
\* what the result is measured against: every walk, by brute force

Min(S) == CHOOSE x \in S : \A y \in S : x <= y

\* the total costs of all walks from u to t of at most m flights
RECURSIVE WalkCosts(_, _, _, _)
WalkCosts(fl, u, t, m) ==
    (IF u = t THEN {0} ELSE {})
    \cup (IF m = 0 THEN {}
          ELSE UNION {{fl[i][3] + c : c \in WalkCosts(fl, fl[i][2], t, m - 1)} :
                        i \in {j \in 1 .. Len(fl) : fl[j][1] = u}})

\* costs of the routes from src to dst with at most kk stops
RouteCosts(kk) == WalkCosts(flights, src, dst, kk + 1)

----------------------------------------------------------------------------
\* the cheapest cost with no limit on the stops, by relaxing flights until
\* nothing improves; d maps the cities reached so far to their best cost

RECURSIVE RelaxAll(_, _)
RelaxAll(fl, d) ==
    LET better == {i \in 1 .. Len(fl) :
                      /\ fl[i][1] \in DOMAIN d
                      /\ \/ fl[i][2] \notin DOMAIN d
                         \/ d[fl[i][1]] + fl[i][3] < d[fl[i][2]]}
    IN  IF better = {} THEN d
        ELSE LET i == CHOOSE j \in better : TRUE
                 c == d[fl[i][1]] + fl[i][3]
             IN  RelaxAll(fl, [u \in DOMAIN d \cup {fl[i][2]} |->
                                  IF u = fl[i][2] THEN c ELSE d[u]])

UnconstrainedCost ==
    LET d == RelaxAll(flights, [u \in {src} |-> 0])
    IN  IF dst \in DOMAIN d THEN d[dst] ELSE -1

----------------------------------------------------------------------------
C3_SourceIsDestination ==
    src = dst =>
        /\ pc = "loop" => pq = SetToBag({Seed(src)})
        /\ pc = "done" => returned = 0

\* a call with src = dst, k > 0 and a zero-cost flight leaving and a flight
\* entering src has returned 0
C3_Witness ==
    /\ pc = "done"
    /\ src = dst
    /\ returned = 0
    /\ k > 0
    /\ \E i, j \in 1 .. Len(flights) :
          /\ flights[i][1] = src /\ flights[i][3] = 0
          /\ flights[j][2] = src

\* C4: a call with k stops returns a cost, and no greater a cost, whenever
\* the call with fewer stops k1 <= k on the same flights, src and dst does.
C4_MonotoneInStops ==
    pc = "done" =>
        \A k1 \in 0 .. k :
            LET c1 == findCheapestPrice(n, flights, src, dst, k1)
            IN  c1 # -1 => (returned # -1 /\ returned <= c1)

\* a call has returned strictly less than the call with fewer stops returns
C4_Witness ==
    /\ pc = "done"
    /\ k > 0
    /\ returned # -1
    /\ LET c1 == findCheapestPrice(n, flights, src, dst, k - 1)
       IN  c1 # -1 /\ returned < c1

\* C5: whichever entry of least cost each pop takes, the call returns what
\* the call with one fixed choice among the ties returns.
C5_TieOrderIndependent ==
    pc = "done" => returned = findCheapestPrice(n, flights, src, dst, k)

\* a pop has at least two entries of the same least cost, at different
\* cities, to choose from
C5_Witness ==
    /\ pc = "loop"
    /\ \E e, f \in Top(pq) : e[2] # f[2] /\ e[2] # dst /\ f[2] = dst

----------------------------------------------------------------------------
\* C6: for any k >= 0 the call neither crashes nor indexes a vector outside
\* its size: every entry has its city in [0, n) and its stops in [0, k+1],
\* and every row of dist has exactly k+2 columns.
C6_NoCrashInBounds ==
    k >= 0 =>
        /\ pc # "crashed"
        /\ ~oob
        /\ \A e \in BagToSet(pq) : e[2] \in Nodes(n) /\ e[3] >= 0 /\ e[3] - 1 <= k
        /\ pc \in {"loop", "done"} =>
              \A u \in Nodes(n) : DOMAIN dist[u] = 0 .. (k + 1)

\* C7: with non-negative int costs no sum current_cost + flight_cost exceeds
\* the largest int, so no cost in the queue has wrapped round.
C7_NoOverflow ==
    /\ ~ovf
    /\ \A e \in BagToSet(pq) : e[1] >= 0

\* C8: for every negative k the call returns 0 when src = dst and -1
\* otherwise, with no crash and no access outside dist.
C8_NegativeStops ==
    k < 0 =>
        /\ pc # "crashed"
        /\ ~oob
        /\ pc = "done" => returned = (IF src = dst THEN 0 ELSE -1)

\* C9: every call on a valid input ends, by returning at the pop of dst or by
\* emptying the queue, also on graphs with cycles and zero-cost cycles;
\* until then every entry has between 0 and k+1 stops.
C9_Terminates ==
    /\ <>(pc = "done")
    /\ [](\A e \in BagToSet(pq) : e[3] >= 0 /\ e[3] <= k + 1)

\* a call has ended with the queue empty on flights that hold a zero-cost
\* cycle through the source
C9_Witness ==
    /\ pc = "done"
    /\ returned = -1
    /\ pq = EmptyBag
    /\ k > 0
    /\ \E i, j \in 1 .. Len(flights) :
          /\ flights[i][1] = src /\ flights[i][3] = 0
          /\ flights[j][1] = flights[i][2] /\ flights[j][2] = src /\ flights[j][3] = 0

\* C10: for every k >= n - 2, up to the largest int, the call returns the
\* cheapest cost with no limit on the stops, or -1 if dst is not reachable.
C10_LargeStopsUnconstrained ==
    (k >= 0 /\ k >= n - 2) =>
        /\ pc # "crashed"
        /\ pc = "done" => returned = UnconstrainedCost

----------------------------------------------------------------------------
\* some flight of the list has a negative cost
HasNegativeCost == \E i \in 1 .. Len(flights) : flights[i][3] < 0

\* C11: a call on a flight list that holds a negative cost is rejected: it
\* never returns, as if it were a cost, a value that differs from the least
\* total cost over the routes with at most k stops (-1 if there is none);
\* stated for src # dst, where every route takes at least one flight.
C11_NegativeCostRejected ==
    (HasNegativeCost /\ src # dst /\ pc = "done") =>
        returned = (IF RouteCosts(k) = {} THEN -1 ELSE Min(RouteCosts(k)))

----------------------------------------------------------------------------
\* C12: on valid inputs each pop takes an entry that costs at least as much
\* as every entry popped before it, and when the pop of dst returns, every
\* entry left in the queue costs at least the returned value.
C12_PopOrder ==
    /\ [][\A e \in popped' \ popped : \A p \in popped : p[1] <= e[1]]_vars
    /\ [](pc = "done" => \A e \in BagToSet(pq) : returned <= e[1])

\* the pop of dst has returned after pops of at least two different costs,
\* and left behind an entry of the returned cost and a dearer one
C12_Witness ==
    /\ pc = "done"
    /\ \E p, q \in popped : p[1] < q[1] /\ q[1] < returned
    /\ \E e, f \in BagToSet(pq) : e[1] = returned /\ returned < f[1]

----------------------------------------------------------------------------
\* a popped entry that reaches the relaxation loop: neither at dst nor over
\* the stop budget
Expanded(e) == ~AtDestination(e, dst) /\ ~ExceedsStops(e, k)

\* the entries for the city and stops of e that were popped and expanded
\* before e
ExpandedBefore(e) ==
    {p \in popped : Expanded(p) /\ p[2] = e[2] /\ p[3] = e[3]}

\* C13 as claimed: once an entry for (city, stops) has been popped and
\* expanded at cost c, no later pop expands an entry for the same city and
\* stops with a cost >= c.
C13_NoRevisit ==
    [][\A e \in popped' \ popped :
          Expanded(e) => \A p \in ExpandedBefore(e) : e[1] < p[1]]_vars

\* C13, amended: once an entry for (city, stops) has been popped and expanded
\* at cost c, no entry for the same city and stops is pushed any more; an
\* entry for them that is already queued costs more than c and is still
\* popped and expanded, but its expansion changes neither dist nor the queue
\* beyond removing the entry.
C13_RevisitRelaxesNothing ==
    [][/\ \A e \in popped' \ popped :
            (Expanded(e) /\ ExpandedBefore(e) # {}) =>
                /\ \A p \in ExpandedBefore(e) : p[1] < e[1]
                /\ dist' = dist
                /\ pq' = Pop(pq, e)
       /\ \A f \in BagToSet(pq') \ BagToSet(pq) :
            \A p \in popped' : ~(Expanded(p) /\ p[2] = f[2] /\ p[3] = f[3])]_vars

\* two entries for the same city and stops have been popped and expanded,
\* the dearer one at a city that has a flight to relax
C13_Witness ==
    \E p, q \in popped :
        /\ Expanded(p) /\ Expanded(q)
        /\ p[2] = q[2] /\ p[3] = q[3] /\ p[1] < q[1]
        /\ adj[q[2]] # << >>

----------------------------------------------------------------------------
\* the relaxation rule as stated, applied to the flights of the list that
\* leave the city of the popped entry e, in the order of the list: the
\* candidate is inserted, and recorded in the table, exactly when it is
\* strictly less than the table's value just before
RECURSIVE Relaxation(_, _, _, _, _)
Relaxation(fl, i, e, tab, q) ==
    IF i > Len(fl) THEN [dist |-> tab, pq |-> q]
    ELSE IF fl[i][1] # e[2] THEN Relaxation(fl, i + 1, e, tab, q)
    ELSE LET c == e[1] + fl[i][3]
             target == fl[i][2]
             s1 == e[3] + 1
         IN  IF c < tab[target][s1]
             THEN Relaxation(fl, i + 1, e, [tab EXCEPT ![target][s1] = c],
                             q (+) SetToBag({<<c, target, s1>>}))
             ELSE Relaxation(fl, i + 1, e, tab, q)

\* C14: in every step of the search no value of dist increases, dist[src][0]
\* stays 0, and for each flight relaxed the entry (c, target, s+1) is
\* inserted exactly when c is strictly less than dist[target][s+1] just
\* before, dist[target][s+1] then becoming c; nothing else is inserted.
C14_Relaxation ==
    [][pc = "loop" =>
          /\ \A u \in Nodes(n), s \in 0 .. (k + 1) : dist'[u][s] <= dist[u][s]
          /\ dist'[src][0] = 0
          /\ popped' = popped => pq' = pq
          /\ \A e \in popped' \ popped :
                LET r == IF Expanded(e)
                         THEN Relaxation(flights, 1, e, dist, Pop(pq, e))
                         ELSE [dist |-> dist, pq |-> Pop(pq, e)]
                IN  dist' = r.dist /\ pq' = r.pq]_vars

\* an expanded entry has two flights to the same city: the cheaper one was
\* inserted, the dearer one, not less than the table's value, was not
C14_Witness ==
    \E e \in popped :
        /\ Expanded(e)
        /\ \E i, j \in 1 .. Len(flights) :
              /\ flights[i][1] = e[2] /\ flights[j][1] = e[2]
              /\ flights[i][2] = flights[j][2]
              /\ flights[i][3] < flights[j][3]
              /\ <<e[1] + flights[i][3], flights[i][2], e[3] + 1>> \in popped \cup BagToSet(pq)
              /\ <<e[1] + flights[j][3], flights[j][2], e[3] + 1>> \notin popped \cup BagToSet(pq)

----------------------------------------------------------------------------
\* the number of entries pushed so far: the seed and one per relaxation that
\* succeeded
Insertions == 1 + BagCardinality(relaxed)

\* C15: on valid inputs each flight, taken from entries with a given number
\* of stops, updates the table and pushes an entry at most once, so the
\* entries pushed over a run, the seed included, number at most
\* 1 + E*(k+1), E being the number of flights of the list.
C15_InsertionBound ==
    /\ \A r \in BagToSet(relaxed) : CopiesIn(r, relaxed) = 1 /\ r[3] \in 0 .. k
    /\ pc \in {"loop", "done"} =>
          /\ Insertions = BagCardinality(pq) + Cardinality(popped)
          /\ Insertions <= 1 + Len(flights) * (k + 1)

\* a run has ended with exactly 1 + E*(k+1) entries pushed, for at least two
\* flights and k >= 1, after expanding two entries for the same city and stops
C15_Witness ==
    /\ pc = "done"
    /\ Len(flights) >= 2
    /\ k >= 1
    /\ Insertions = 1 + Len(flights) * (k + 1)
    /\ \E p, q \in popped :
          Expanded(p) /\ Expanded(q) /\ p[2] = q[2] /\ p[3] = q[3] /\ p # q

----------------------------------------------------------------------------
\* the total costs of the walks from u to t of exactly m flights
RECURSIVE ExactWalkCosts(_, _, _, _)
ExactWalkCosts(fl, u, t, m) ==
    IF m = 0 THEN (IF u = t THEN {0} ELSE {})
    ELSE UNION {{fl[i][3] + c : c \in ExactWalkCosts(fl, fl[i][2], t, m - 1)} :
                  i \in {j \in 1 .. Len(fl) : fl[j][1] = u}}

\* C16: on valid inputs every queued entry (c, v, s) and every value
\* dist[v][s] = c other than the initial maximum is the total cost of a walk
\* from src to v of exactly s flights, every queued entry has c >= dist[v][s],
\* and a returned cost is the cost of a route with at most k stops.
C16_Soundness ==
    pc \in {"loop", "done"} =>
        /\ \A e \in BagToSet(pq) :
              /\ e[1] \in ExactWalkCosts(flights, src, e[2], e[3])
              /\ e[1] >= dist[e[2]][e[3]]
        /\ \A v \in Nodes(n), s \in 0 .. (k + 1) :
              dist[v][s] # INT_MAX => dist[v][s] \in ExactWalkCosts(flights, src, v, s)
        /\ (pc = "done" /\ returned # -1) => returned \in RouteCosts(k)

\* a call has returned a cost, the table holds the cost of a walk of at least
\* one flight, and the queue still holds an entry that costs more than the
\* table's value for its city and stops
C16_Witness ==
    /\ pc = "done"
    /\ returned # -1
    /\ \E v \in Nodes(n), s \in 1 .. (k + 1) : dist[v][s] # INT_MAX
    /\ \E e \in BagToSet(pq) : e[1] > dist[e[2]][e[3]]

====
